---- MODULE Spec2Model ----
(***************************************************************************)
(* A model of the LSF glue layer of roundup, src/app/lsf.py and            *)
(* src/webapp/LSF.py, and of the transaction helper src/python/dbutil.py.  *)
(* The LSF modules shell out to bjobs and bsub, parse the text they print  *)
(* with a regular expression, retry a status query once after a sleep and  *)
(* set the environment of the process for the LSF commands.                *)
(*                                                                         *)
(* Text is a sequence of one-character strings, so that splitting,         *)
(* matching and slicing are computed character by character as Python      *)
(* computes them on a byte string.                                         *)
(***************************************************************************)
EXTENDS Integers, Sequences, FiniteSets, TLC

VARIABLES pc, call, attempt, events, result, err, environ

vars == <<pc, call, attempt, events, result, err, environ>>

(***************************************************************************)
(* Characters.                                                             *)
(***************************************************************************)

\* The characters \s matches in an 8-bit pattern (\v has no TLA+ escape).
Whitespace == {" ", "\t", "\n", "\r", "\f"}

Digits == {"0", "1", "2", "3", "4", "5", "6", "7", "8", "9"}

(***************************************************************************)
(* The regular expressions of the code, as sequences of items, and the     *)
(* backtracking matcher of Python's re module restricted to the items the  *)
(* code uses: anchors, groups, literals, greedy + and lazy * over a        *)
(* character class.  The alternatives of a repeat are all computed and the *)
(* one backtracking reaches first is taken.                                *)
(***************************************************************************)

Bol == [k |-> "bol"]

Eol == [k |-> "eol"]

Open(g) == [k |-> "open", g |-> g]

Close(g) == [k |-> "close", g |-> g]

Lit(ch) == [k |-> "lit", ch |-> ch]

Plus(c) == [k |-> "rep", c |-> c, min |-> 1, greedy |-> TRUE]

LazyStar(c) == [k |-> "rep", c |-> c, min |-> 0, greedy |-> FALSE]

\* \S, \s, . (no DOTALL flag) and \d
InClass(c, ch) ==
    CASE c = "S" -> ch \notin Whitespace
      [] c = "s" -> ch \in Whitespace
      [] c = "dot" -> ch /= "\n"
      [] c = "d" -> ch \in Digits

\* The pattern with a greedy job name, (.*) for (.*?).
bjobsRegex_GreedyName ==
    << Bol,
       Open(1), Plus("S"), Close(1), Plus("s"),
       Open(2), Plus("S"), Close(2), Plus("s"),
       Open(3), Plus("S"), Close(3), Plus("s"),
       Open(4), Plus("S"), Close(4), Plus("s"),
       Open(5), Plus("S"), Close(5), Plus("s"),
       Open(6), Plus("S"), Close(6), Plus("s"),
       Open(7), [k |-> "rep", c |-> "dot", min |-> 0, greedy |-> TRUE], Close(7), Plus("s"),
       Open(8), Plus("S"), Plus("s"), Plus("S"), Plus("s"), Plus("S"), Close(8),
       Plus("s"), Eol >>

\* '^(\S+)\s+(\S+)\s+(\S+)\s+(\S+)\s+(\S+)\s+(\S+)\s+(.*?)\s+(\S+\s+\S+\s+\S+)\s+$'
bjobsRegex ==
    << Bol,
       Open(1), Plus("S"), Close(1), Plus("s"),
       Open(2), Plus("S"), Close(2), Plus("s"),
       Open(3), Plus("S"), Close(3), Plus("s"),
       Open(4), Plus("S"), Close(4), Plus("s"),
       Open(5), Plus("S"), Close(5), Plus("s"),
       Open(6), Plus("S"), Close(6), Plus("s"),
       Open(7), LazyStar("dot"), Close(7), Plus("s"),
       Open(8), Plus("S"), Plus("s"), Plus("S"), Plus("s"), Plus("S"), Close(8),
       Plus("s"), Eol >>

\* The pattern with any bracketed token, <(\S+)> for <(\d+)>.
jobIdRegex_AnyToken == << Lit("<"), Open(1), Plus("S"), Close(1), Lit(">") >>

\* '<(\d+)>'
jobIdRegex == << Lit("<"), Open(1), Plus("d"), Close(1), Lit(">") >>

NoMatch == [ok |-> FALSE]

NoGroups == [g \in 1..8 |-> <<0, 0>>]

\* The least and the greatest element of a non-empty set of integers.
Least(S) == CHOOSE x \in S : \A y \in S : x <= y

Greatest(S) == CHOOSE x \in S : \A y \in S : x >= y

\* The number of consecutive characters of class c in s from position pos.
RunLen(c, s, pos) ==
    LET stops == {j \in pos..Len(s) : ~InClass(c, s[j])}
    IN  IF stops = {} THEN Len(s) + 1 - pos ELSE Least(stops) - pos

RECURSIVE MatchFrom(_, _, _, _, _)

\* The repeat re[i] of at least re[i].min and at most max characters,
\* followed by the rest of the pattern.  A greedy repeat tries the longest
\* run first and gives back one character at a time, a lazy one tries the
\* shortest first and takes one more at a time: the match is that of the
\* first length, in that order, after which the rest of the pattern matches.
TryRepeat(re, i, s, pos, caps, max) ==
    LET tries == {<<n, MatchFrom(re, i + 1, s, pos + n, caps)>> : n \in re[i].min..max}
        good == {t \in tries : t[2].ok}
        lens == {t[1] : t \in good}
        first == IF re[i].greedy THEN Greatest(lens) ELSE Least(lens)
    IN  IF good = {} THEN NoMatch
        ELSE (CHOOSE t \in good : t[1] = first)[2]

\* Match items i.. of re against s at position pos; caps are the groups
\* closed so far.  $ matches at the end and before a newline that ends s.
MatchFrom(re, i, s, pos, caps) ==
    IF i > Len(re) THEN [ok |-> TRUE, caps |-> caps]
    ELSE LET it == re[i] IN
         CASE it.k = "bol" ->
                IF pos = 1 THEN MatchFrom(re, i + 1, s, pos, caps) ELSE NoMatch
           [] it.k = "eol" ->
                IF pos = Len(s) + 1 \/ (pos = Len(s) /\ s[pos] = "\n")
                THEN MatchFrom(re, i + 1, s, pos, caps) ELSE NoMatch
           [] it.k = "open" ->
                MatchFrom(re, i + 1, s, pos, [caps EXCEPT ![it.g] = <<pos, @[2]>>])
           [] it.k = "close" ->
                MatchFrom(re, i + 1, s, pos, [caps EXCEPT ![it.g] = <<@[1], pos>>])
           [] it.k = "lit" ->
                IF pos <= Len(s) /\ s[pos] = it.ch
                THEN MatchFrom(re, i + 1, s, pos + 1, caps) ELSE NoMatch
           [] it.k = "rep" ->
                TryRepeat(re, i, s, pos, caps, RunLen(it.c, s, pos))

\* re.search: the match at the leftmost position that has one.
Search(re, s) ==
    LET found == {<<p, MatchFrom(re, 1, s, p, NoGroups)>> : p \in 1..(Len(s) + 1)}
        good == {t \in found : t[2].ok}
        first == Least({t[1] : t \in good})
    IN  IF good = {} THEN NoMatch
        ELSE (CHOOSE t \in good : t[1] = first)[2]

\* m.group(g)
Group(s, m, g) == SubSeq(s, m.caps[g][1], m.caps[g][2] - 1)

(***************************************************************************)
(* str.splitlines(True) of a byte string: a line ends after \n, \r\n or    *)
(* \r, the ending is kept, and text after the last ending is a line.       *)
(***************************************************************************)

\* The position of the last character of the line that starts at p.
LineEnd(s, p) ==
    LET ends == {j \in p..Len(s) : s[j] \in {"\n", "\r"}}
        j == Least(ends)
    IN  IF ends = {} THEN Len(s)
        ELSE IF s[j] = "\r" /\ j < Len(s) /\ s[j + 1] = "\n" THEN j + 1
        ELSE j

RECURSIVE SplitLinesFrom(_, _)
SplitLinesFrom(s, p) ==
    IF p > Len(s) THEN << >>
    ELSE LET e == LineEnd(s, p)
         IN  <<SubSeq(s, p, e)>> \o SplitLinesFrom(s, e + 1)

splitlines(s) == SplitLinesFrom(s, 1)

(***************************************************************************)
(* Constants of both modules (lines 21-35 of LSF.py, 21-33 of lsf.py).     *)
(***************************************************************************)

EXIT_STATUS == <<"E", "X", "I", "T">>

DONE_STATUS == <<"D", "O", "N", "E">>

ZOMBIE_STATUS == <<"Z", "O", "M", "B", "I">>

\* The terminal statuses without ZOMBI.
OFF_STATUSES_NoZombie == {DONE_STATUS, EXIT_STATUS}

OFF_STATUSES == {DONE_STATUS, EXIT_STATUS, ZOMBIE_STATUS}

\* Python's None, and the value of a variable nothing was assigned to.
None == [t |-> "none"]

(***************************************************************************)
(* str(x): a string is itself, an integer its decimal digits.              *)
(***************************************************************************)

DigitChar(d) == <<"0", "1", "2", "3", "4", "5", "6", "7", "8", "9">>[d + 1]

RECURSIVE Decimal(_)
Decimal(n) ==
    IF n < 10 THEN <<DigitChar(n)>> ELSE Decimal(n \div 10) \o <<DigitChar(n % 10)>>

PyStr(x) == IF x.t = "int" THEN Decimal(x.v) ELSE x.v

StrVal(s) == [t |-> "str", v |-> s]

IntVal(n) == [t |-> "int", v |-> n]

\* sep.join(parts)
RECURSIVE Join(_, _)
Join(sep, parts) ==
    IF parts = << >> THEN << >>
    ELSE IF Len(parts) = 1 THEN parts[1]
    ELSE parts[1] \o sep \o Join(sep, Tail(parts))

(***************************************************************************)
(* The pure part of the status functions.                                  *)
(***************************************************************************)

\* lsf.py infosAreOff: no info is "on"
infosAreOff(infos) ==
    LET ons == SelectSeq(infos, LAMBDA info : info.status \notin OFF_STATUSES)
    IN  ons = << >>

\* lsf.py infosAreOn
infosAreOn(infos) == ~infosAreOff(infos)

\* [info[STATUS] for info in infos]
Statuses(infos) == [i \in 1..Len(infos) |-> infos[i].status]

\* The loop that ends at the first line the regex does not match.
RECURSIVE ParseJobs_StopAtMismatch(_, _)
ParseJobs_StopAtMismatch(jobs, i) ==
    IF i > Len(jobs) THEN << >>
    ELSE LET job == jobs[i]
             m == Search(bjobsRegex, job)
         IN  IF m.ok
             THEN << [jobid |-> Group(job, m, 1),
                      status |-> Group(job, m, 3),
                      job_name |-> Group(job, m, 7)] >>
                  \o ParseJobs_StopAtMismatch(jobs, i + 1)
             ELSE << >>

\* The loop of getJobInfosSub over the lines from position i: one info per
\* line the regex matches, other lines skipped.
RECURSIVE ParseJobs(_, _)
ParseJobs(jobs, i) ==
    IF i > Len(jobs) THEN << >>
    ELSE LET job == jobs[i]
             m == Search(bjobsRegex, job)
         IN  (IF m.ok
              THEN << [jobid |-> Group(job, m, 1),
                       status |-> Group(job, m, 3),
                       job_name |-> Group(job, m, 7)] >>
              ELSE << >>) \o ParseJobs(jobs, i + 1)

\* getJobInfosSub after subprocess.check_output returned output
getJobInfosSub(output) == ParseJobs(splitlines(output), 1)

\* The argument vectors of the status command.
BjobsPrefix == << <<"b", "j", "o", "b", "s">>, <<"-", "a">>, <<"-", "u">>, <<"a", "l", "l">>, <<"-", "w">> >>

getJobNameArgs(jobName) == BjobsPrefix \o << <<"-", "J">>, PyStr(jobName) >>

\* The arguments with `if not jobIds` for `if jobIds == None`.
getJobInfosArgs_SentinelWhenEmpty(jobIds) ==
    LET ids == IF jobIds = None THEN << StrVal(<<"0">>) >>
               ELSE IF jobIds.v = << >> THEN << StrVal(<<"0">>) >>
               ELSE jobIds.v
    IN  BjobsPrefix \o [i \in 1..Len(ids) |-> PyStr(ids[i])]

getJobInfosArgs(jobIds) ==
    LET ids == IF jobIds = None THEN << StrVal(<<"0">>) >> ELSE jobIds.v
    IN  BjobsPrefix \o [i \in 1..Len(ids) |-> PyStr(ids[i])]

\* re.search('<(\d+)>', output) of bsub and submitToLSF: the job id, or None
\* where the code raises.
SubmittedJobId(output) ==
    LET m == Search(jobIdRegex, output)
    IN  IF m.ok THEN StrVal(Group(output, m, 1)) ELSE None

(***************************************************************************)
(* What bjobs prints.  A line is described by its tokens, the whitespace   *)
(* between them, before the first and after the last, and its ending; the  *)
(* text the code reads is the rendering of the description.                *)
(***************************************************************************)

\* toks[1] gaps[1] toks[2] ... toks[n]
RECURSIVE Weave(_, _)
Weave(toks, gaps) ==
    IF toks = << >> THEN << >>
    ELSE IF Len(toks) = 1 THEN toks[1]
    ELSE toks[1] \o gaps[1] \o Weave(Tail(toks), Tail(gaps))

Line(lead, toks, gaps, trail, term) ==
    [lead |-> lead, toks |-> toks, gaps |-> gaps, trail |-> trail, term |-> term]

RenderLine(d) == d.lead \o Weave(d.toks, d.gaps) \o d.trail \o d.term

RECURSIVE RenderOutput(_)
RenderOutput(ds) ==
    IF ds = << >> THEN << >> ELSE RenderLine(Head(ds)) \o RenderOutput(Tail(ds))

Sp(n) == [i \in 1..n |-> " "]

NL == <<"\n">>

\* JOBID   USER    STAT  QUEUE      FROM_HOST   EXEC_HOST   JOB_NAME   SUBMIT_TIME
HeaderLine ==
    Line(<< >>,
         << <<"J", "O", "B", "I", "D">>, <<"U", "S", "E", "R">>, <<"S", "T", "A", "T">>, <<"Q", "U", "E", "U", "E">>, <<"F", "R", "O", "M", "_", "H", "O", "S", "T">>, <<"E", "X", "E", "C", "_", "H", "O", "S", "T">>,
            <<"J", "O", "B", "_", "N", "A", "M", "E">>, <<"S", "U", "B", "M", "I", "T", "_", "T", "I", "M", "E">> >>,
         << Sp(3), Sp(4), Sp(2), Sp(6), Sp(3), Sp(3), Sp(3) >>,
         << >>, NL)

\* Job <bar> is not found
NotFoundLine ==
    Line(<< >>, << <<"J", "o", "b">>, <<"<", "b", "a", "r", ">">>, <<"i", "s">>, <<"n", "o", "t">>, <<"f", "o", "u", "n", "d">> >>,
         << Sp(1), Sp(1), Sp(1), Sp(1) >>, << >>, NL)

BlankLine == Line(<< >>, << >>, << >>, << >>, NL)

\* 461830  td23    RUN   cbi_unlimited host1 host2 foo bar        Mar  3 10:36
ExampleLine(term) ==
    Line(<< >>,
         << <<"4", "6", "1", "8", "3", "0">>, <<"t", "d", "2", "3">>, <<"R", "U", "N">>, <<"c", "b", "i", "_", "u", "n", "l", "i", "m", "i", "t", "e", "d">>, <<"h", "o", "s", "t", "1">>, <<"h", "o", "s", "t", "2">>,
            <<"f", "o", "o">>, <<"b", "a", "r">>, <<"M", "a", "r">>, <<"3">>, <<"1", "0", ":", "3", "6">> >>,
         << Sp(2), Sp(4), Sp(3), Sp(1), Sp(1), Sp(1), Sp(1), Sp(8), Sp(2), Sp(1) >>,
         << >>, term)

\* A job line of the scheduler: id, status and a one-token name.
JobLine(id, st) ==
    Line(<< >>,
         << id, <<"t", "d", "2", "3">>, st, <<"q">>, <<"h", "1">>, <<"-">>, <<"f", "o", "o">>, <<"M", "a", "r">>, <<"3">>, <<"1", "0", ":", "3", "6">> >>,
         << Sp(2), Sp(1), Sp(1), Sp(1), Sp(1), Sp(1), Sp(2), Sp(2), Sp(1) >>,
         << >>, NL)

RUN == <<"R", "U", "N">>

PEND == <<"P", "E", "N", "D">>

(***************************************************************************)
(* Bounds and the inputs drawn within them.                                *)
(***************************************************************************)

\* lines of one bjobs output
MaxLines == 2

\* infos handed to infosAreOff and infosAreOn
MaxInfos == 3

\* ids handed to getJobInfos
MaxIds == 2

\* characters of one bsub output
MaxOutLen == 4

\* tokens of one line handed to the parser
MaxToks == 11

\* All sequences over S of length at most n.
RECURSIVE SeqsUpTo(_, _)
SeqsUpTo(S, n) ==
    IF n = 0 THEN {<< >>}
    ELSE LET shorter == SeqsUpTo(S, n - 1)
         IN  shorter \cup {Append(q, x) : q \in shorter, x \in S}

List(v) == [t |-> "list", v |-> v]

Bool(b) == [t |-> "bool", v |-> b]

JobNames == {StrVal(<<"f", "o", "o">>)}

IdVals == {IntVal(120), StrVal(<<"7">>)}

JobIdArgs == {None} \cup {List(v) : v \in SeqsUpTo(IdVals, MaxIds)}

\* delay=1.0 is the default of every retrying function
DefaultDelay == 1

Delays == {DefaultDelay, 5}

SchedLines ==
    {HeaderLine, NotFoundLine, JobLine(<<"4", "1">>, RUN), JobLine(<<"7">>, DONE_STATUS)}

SchedOutputs == SeqsUpTo(SchedLines, MaxLines)

StatusVals == {DONE_STATUS, EXIT_STATUS, ZOMBIE_STATUS, RUN, PEND}

InfoLists ==
    SeqsUpTo({[jobid |-> <<"1">>, status |-> st, job_name |-> <<"f", "o", "o">>] : st \in StatusVals},
             MaxInfos)

SubmitChars == {"<", ">", "7", "n"}

\* Job <789> is submitted to queue <normal>.
SubmitExample == <<"J", "o", "b", " ", "<", "7", "8", "9", ">", " ", "i", "s", " ", "s", "u", "b", "m", "i", "t", "t", "e", "d", " ", "t", "o", " ", "q", "u", "e", "u", "e", " ", "<", "n", "o", "r", "m", "a", "l", ">", ".">>

SubmitOutputs == SeqsUpTo(SubmitChars, MaxOutLen) \cup {SubmitExample}

\* check_output raises OSError when the command cannot be started and
\* CalledProcessError when it exits non-zero.
CommandErrors == {"OSError", "CalledProcessError"}

(***************************************************************************)
(* Lines for the parser alone: n tokens, of which the first six are the    *)
(* fields before the job name and the last three the submit time when      *)
(* there are that many, with chosen whitespace after the sixth token,      *)
(* before the submit time, elsewhere, before the first token and after the *)
(* last, and a chosen ending.                                              *)
(***************************************************************************)

NameTok(k) == IF k % 2 = 1 THEN <<"a">> ELSE <<"b", "c">>

ParamToks(n, st) ==
    LET fixed == << <<"4", "1">>, <<"u">>, st, <<"q">>, <<"h">>, <<"-">> >>
        time == << <<"M", "a", "r">>, <<"3">>, <<"t">> >>
        nfixed == IF n < 6 THEN n ELSE 6
        ntime == IF n <= 6 THEN 0 ELSE IF n >= 9 THEN 3 ELSE n - 6
        nname == IF n > 9 THEN n - 9 ELSE 0
    IN  SubSeq(fixed, 1, nfixed) \o [k \in 1..nname |-> NameTok(k)] \o SubSeq(time, 1, ntime)

ParamLine(n, st, gap, gap6, gapT, lead, trail, term) ==
    Line(lead, ParamToks(n, st),
         [j \in 1..(IF n = 0 THEN 0 ELSE n - 1) |->
             IF j = 6 THEN gap6 ELSE IF n > 9 /\ j = n - 3 THEN gapT ELSE gap],
         trail, term)

CRLF == <<"\r", "\n">>

ParamLines ==
    { ParamLine(n, st, gap, gap6, gapT, lead, trail, term) :
        n \in 0..MaxToks, st \in {RUN, DONE_STATUS}, gap \in {Sp(1), Sp(2)},
        gap6 \in {Sp(1), Sp(2), <<"\t">>}, gapT \in {Sp(1), Sp(3)},
        lead \in {<< >>, Sp(1)}, trail \in {<< >>, Sp(1)}, term \in {NL, CRLF, << >>} }

\* Lines that are put together into outputs of several lines.
MixLines ==
    { HeaderLine, NotFoundLine, BlankLine,
      ParamLine(11, RUN, Sp(1), Sp(2), Sp(1), << >>, << >>, NL),
      ParamLine(10, DONE_STATUS, Sp(1), Sp(1), Sp(2), << >>, Sp(1), CRLF),
      ParamLine(10, RUN, Sp(1), Sp(1), Sp(1), << >>, << >>, << >>) }

\* Only the last line of an output can lack an ending.
ParseOutputs ==
    {<<d>> : d \in ParamLines \cup {ExampleLine(NL), ExampleLine(<< >>)}}
    \cup {ds \in SeqsUpTo(MixLines, MaxLines) :
            \A i \in 1..Len(ds) : i < Len(ds) => ds[i].term /= << >>}

(***************************************************************************)
(* The runs of the external commands: what the command prints and what the *)
(* code reads from it.                                                     *)
(***************************************************************************)

\* bjobs prints the lines ds and getJobInfosSub parses them
BjobsRun(ds) == [ds |-> ds, infos |-> getJobInfosSub(RenderOutput(ds))]

SchedRuns == {BjobsRun(ds) : ds \in SchedOutputs}

ParseRuns == {BjobsRun(ds) : ds \in ParseOutputs}

\* bsub prints output and the code searches it for the job id
BsubRun(output) == [out |-> output, id |-> SubmittedJobId(output)]

SubmitRuns == {BsubRun(output) : output \in SubmitOutputs}

(***************************************************************************)
(* The entry points.  A call is [mod, fn, arg, retry, delay].              *)
(***************************************************************************)

NameFns == {"getJobNameInfos", "getJobNameStatuses", "isJobNameOff", "isJobNameOn"}

\* The functions that take retry and delay.
HasRetry(mod, fn) ==
    \/ mod = "app" /\ fn \in NameFns \cup {"getJobInfos"}
    \/ mod = "web" /\ fn \in {"getJobNameStatuses", "getJobStatuses",
                              "isJobNameOff", "isJobNameOn"}

ArgsOf(mod, fn) ==
    CASE fn \in NameFns -> JobNames
      [] fn = "getJobInfos" -> JobIdArgs
      [] fn = "getJobStatuses" -> IdVals

StatusFns(mod) ==
    IF mod = "app" THEN NameFns \cup {"getJobInfos"}
    ELSE NameFns \cup {"getJobInfos", "getJobStatuses"}

MkCall(mod, fn, arg, retry, delay) ==
    [mod |-> mod, fn |-> fn, arg |-> arg, retry |-> retry, delay |-> delay]

\* The calls of the status functions: retry only where the function takes
\* it, and a delay other than the default only with retry.
StatusCalls ==
    { c \in { MkCall(mod, fn, arg, retry, delay) :
                mod \in {"app", "web"},
                fn \in NameFns \cup {"getJobInfos", "getJobStatuses"},
                arg \in JobNames \cup JobIdArgs \cup IdVals,
                retry \in BOOLEAN, delay \in Delays } :
        /\ c.fn \in StatusFns(c.mod)
        /\ c.arg \in ArgsOf(c.mod, c.fn)
        /\ (c.retry => HasRetry(c.mod, c.fn))
        /\ (~c.retry => c.delay = DefaultDelay) }

\* The calls that hand one output to the parser: by name, without retry.
ParseCalls ==
    { c \in StatusCalls : c.fn \in {"getJobNameInfos", "isJobNameOff"} /\ ~c.retry }

\* The argument vector the entry point hands to getJobInfosSub.
QueryArgs(c) ==
    CASE c.fn \in NameFns -> getJobNameArgs(c.arg)
      [] c.fn = "getJobInfos" -> getJobInfosArgs(c.arg)
      [] c.fn = "getJobStatuses" -> getJobInfosArgs(List(<<c.arg>>))

\* The flag when getJobNameStatuses hands its retry on to getJobNameInfos.
InnerRetry_StatusesPassRetry(c) ==
    /\ c.mod = "app"
    /\ c.fn \in {"getJobNameInfos", "getJobInfos", "isJobNameOff", "isJobNameOn",
                 "getJobNameStatuses"}
    /\ c.retry

\* The retry flag that reaches the function whose body calls getJobInfosSub:
\* lsf.py getJobNameInfos and getJobInfos retry themselves, and isJobNameOff
\* and isJobNameOn pass their flag on to getJobNameInfos; getJobNameStatuses
\* calls getJobNameInfos(jobName), whose retry defaults to False.  LSF.py
\* getJobNameInfos and getJobInfos query once.
InnerRetry(c) ==
    /\ c.mod = "app"
    /\ c.fn \in {"getJobNameInfos", "getJobInfos", "isJobNameOff", "isJobNameOn"}
    /\ c.retry

\* The retry loop around that function: getJobNameStatuses of both modules,
\* getJobStatuses, and LSF.py isJobNameOff and isJobNameOn through
\* getJobNameStatuses.
OuterRetry(c) ==
    /\ \/ c.fn \in {"getJobNameStatuses", "getJobStatuses"}
       \/ c.mod = "web" /\ c.fn \in {"isJobNameOff", "isJobNameOn"}
    /\ c.retry

Return(v) == [raise |-> FALSE, v |-> v]

Raise(e) == [raise |-> TRUE, e |-> e]

MultipleJobs == "Exception: more than one LSF job is being processed"

NoJobId == "Exception: failed to find job id for submitted job"

\* isJobNameOff that raises as soon as one job is on.
web_isJobNameOff_RaiseOnAny(statuses) ==
    LET onStatuses == SelectSeq(statuses, LAMBDA status : status \notin OFF_STATUSES)
    IN  IF Len(onStatuses) >= 1 THEN Raise(MultipleJobs)
        ELSE Return(Bool(onStatuses = << >>))

\* LSF.py isJobNameOff after getJobNameStatuses returned statuses
web_isJobNameOff(statuses) ==
    LET onStatuses == SelectSeq(statuses, LAMBDA status : status \notin OFF_STATUSES)
    IN  IF Len(onStatuses) > 1 THEN Raise(MultipleJobs)
        ELSE Return(Bool(onStatuses = << >>))

\* LSF.py isJobNameOn
web_isJobNameOn(statuses) ==
    LET off == web_isJobNameOff(statuses)
    IN  IF off.raise THEN off ELSE Return(Bool(~off.v.v))

\* lsf.py isJobNameOff after getJobNameInfos returned infos
app_isJobNameOff(infos) == Return(Bool(infosAreOff(infos)))

\* lsf.py isJobNameOn
app_isJobNameOn(infos) == Return(Bool(~app_isJobNameOff(infos).v.v))

\* What the entry point does with the infos of its last query.
Finish(c, infos) ==
    CASE c.fn \in {"getJobNameInfos", "getJobInfos"} -> Return(List(infos))
      [] c.fn \in {"getJobNameStatuses", "getJobStatuses"} -> Return(List(Statuses(infos)))
      [] c.fn = "isJobNameOff" ->
            IF c.mod = "app" THEN app_isJobNameOff(infos)
            ELSE web_isJobNameOff(Statuses(infos))
      [] c.fn = "isJobNameOn" ->
            IF c.mod = "app" THEN app_isJobNameOn(infos)
            ELSE web_isJobNameOn(Statuses(infos))

\* Where a call stands after a query returned infos: `if not infos and
\* retry` of the querying function, then of the loop around it, then the
\* rest of the entry point.
AfterQuery(c, att, infos) ==
    IF infos = << >> /\ InnerRetry(c) /\ att[2] = 1 THEN "sleep_inner"
    ELSE IF infos = << >> /\ OuterRetry(c) /\ att[1] = 1 THEN "sleep_outer"
    ELSE "finish"

(***************************************************************************)
(* Job submission.                                                         *)
(***************************************************************************)

SubmitOptions == {None, List(<< <<"-", "q">>, <<"s", "h", "o", "r", "t">> >>)}

\* Commands as lists of tokens, one of them with a space inside a token.
SubmitCmds ==
    {List(<< <<"l", "s">>, <<"-", "l">> >>),
     List(<< <<"e", "c", "h", "o">>, <<"h", "i", " ", "w", "o">> >>)}

\* bsub also takes its command as one string.
SubmitCmdStrings == {StrVal(<<" ", "l", "s", " ", " ", "-", "l", "\t", "a">>)}

SubmitCalls ==
    { c \in { MkCall(mod, fn, [cmd |-> cmd, options |-> options], FALSE, DefaultDelay) :
                mod \in {"app", "web"}, fn \in {"bsub", "submitToLSF"},
                cmd \in SubmitCmds \cup SubmitCmdStrings, options \in SubmitOptions } :
        c.arg.cmd \in SubmitCmdStrings => c.fn = "bsub" }

ShlexWhitespace == {" ", "\t", "\r", "\n"}

\* shlex.split(cmd) of a string without quotes, backslashes or comments:
\* the runs of characters that are not whitespace.
RECURSIVE shlex_split(_)
shlex_split(s) ==
    IF s = << >> THEN << >>
    ELSE IF s[1] \in ShlexWhitespace THEN shlex_split(Tail(s))
    ELSE LET stops == {j \in 1..Len(s) : s[j] \in ShlexWhitespace}
             n == IF stops = {} THEN Len(s) ELSE Least(stops) - 1
         IN  <<SubSeq(s, 1, n)>> \o shlex_split(SubSeq(s, n + 1, Len(s)))

\* The argument vector with the command before the options.
bsubCmd_CmdFirst(cmd, options) ==
    LET opts == IF options = None THEN << >> ELSE options.v
        toks == IF cmd.t = "str" THEN shlex_split(cmd.v) ELSE cmd.v
    IN  << <<"b", "s", "u", "b">> >> \o toks \o opts

\* lsf.py bsub: ['bsub'] + list(options) + list(cmd)
bsubCmd(cmd, options) ==
    LET opts == IF options = None THEN << >> ELSE options.v
        toks == IF cmd.t = "str" THEN shlex_split(cmd.v) ELSE cmd.v
    IN  << <<"b", "s", "u", "b">> >> \o opts \o toks

\* LSF.py submitToLSF: the command line 'bsub '+' '.join(bsubOptions) and
\* the standard input '\n'.join(cmds) handed to execute.run
submitToLSFCmd(cmds, bsubOptions) ==
    LET opts == IF bsubOptions = None THEN << >> ELSE bsubOptions.v
    IN  << <<"b", "s", "u", "b", " ">> \o Join(Sp(1), opts), Join(NL, cmds.v) >>

SubmitArgs(c) ==
    IF c.mod = "app" THEN bsubCmd(c.arg.cmd, c.arg.options)
    ELSE submitToLSFCmd(c.arg.cmd, c.arg.options)

\* The end of bsub and of submitToLSF: the id found, or an exception.
SubmitFinish(id) == IF id = None THEN Raise(NoJobId) ELSE Return(id)

(***************************************************************************)
(* The state machine.  pc is where the running call stands: idle, query    *)
(* (about to run bjobs), sleep_inner and sleep_outer (about to sleep in    *)
(* the function that queries, or in the loop around it), submit (about to  *)
(* run bsub), done and raised.  attempt counts the passes of the outer and *)
(* of the inner loop; events logs the external calls in order.             *)
(***************************************************************************)

QueryEvent(args, desc, infos) ==
    [t |-> "query", args |-> args, ok |-> TRUE, e |-> "", desc |-> desc,
     infos |-> infos, d |-> 0]

SubmitEvent(args, output) ==
    [t |-> "submit", args |-> args, ok |-> TRUE, e |-> "", desc |-> output,
     infos |-> << >>, d |-> 0]

FailedEvent(t, args, e) ==
    [t |-> t, args |-> args, ok |-> FALSE, e |-> e, desc |-> << >>,
     infos |-> << >>, d |-> 0]

SleepEvent(d) ==
    [t |-> "sleep", args |-> << >>, ok |-> TRUE, e |-> "", desc |-> << >>,
     infos |-> << >>, d |-> d]

\* os.environ when the program starts: PATH and one variable that is not
\* LSF's.  A variable is a pair in the record; an unset variable is None.
StartEnviron ==
    [PATH |-> StrVal(<<"/", "b">>), HOME |-> StrVal(<<"/", "h">>),
     LSF_BINDIR |-> None, LSF_ENVDIR |-> None, LSF_LIBDIR |-> None,
     LSF_SERVERDIR |-> None, XLSF_UIDDIR |-> None]

Init ==
    /\ pc = "idle"
    /\ call = None
    /\ attempt = <<1, 1>>
    /\ events = << >>
    /\ result = None
    /\ err = None
    /\ environ = StartEnviron

\* An entry point that queries the scheduler is called.
CallFrom(calls) ==
    /\ pc = "idle"
    /\ \E c \in calls : call' = c
    /\ pc' = "query"
    /\ UNCHANGED <<attempt, events, result, err, environ>>

CallStatus == CallFrom(StatusCalls)

CallParse == CallFrom(ParseCalls)

\* The value or the exception a call ends with.
End(out) ==
    IF out.raise
    THEN pc' = "raised" /\ err' = out.e /\ UNCHANGED result
    ELSE pc' = "done" /\ result' = out.v /\ UNCHANGED err

\* getJobInfosSub: bjobs runs and prints, the code parses what it printed,
\* and the caller retries or goes on to its end.
QueryOk(run) ==
    /\ pc = "query"
    /\ events' = Append(events, QueryEvent(QueryArgs(call), run.ds, run.infos))
    /\ IF AfterQuery(call, attempt, run.infos) /= "finish"
       THEN pc' = AfterQuery(call, attempt, run.infos) /\ UNCHANGED <<result, err>>
       ELSE End(Finish(call, run.infos))
    /\ UNCHANGED <<call, attempt, environ>>

\* getJobInfosSub that catches the error of check_output and goes on as
\* if bjobs had printed nothing.
QueryFail_Swallowed(e) ==
    /\ pc = "query"
    /\ events' = Append(events, FailedEvent("query", QueryArgs(call), e))
    /\ IF AfterQuery(call, attempt, << >>) /= "finish"
       THEN pc' = AfterQuery(call, attempt, << >>) /\ UNCHANGED <<result, err>>
       ELSE End(Finish(call, << >>))
    /\ UNCHANGED <<call, attempt, environ>>

\* getJobInfosSub: check_output raises, and nothing catches it.
QueryFail(e) ==
    /\ pc = "query"
    /\ events' = Append(events, FailedEvent("query", QueryArgs(call), e))
    /\ pc' = "raised"
    /\ err' = e
    /\ UNCHANGED <<call, attempt, result, environ>>

Query == (\E run \in SchedRuns : QueryOk(run)) \/ (\E e \in CommandErrors : QueryFail(e))

QueryParse == \E run \in ParseRuns : QueryOk(run)

\* time.sleep(delay), then the second query of that loop.
Sleep ==
    /\ pc \in {"sleep_inner", "sleep_outer"}
    /\ events' = Append(events, SleepEvent(call.delay))
    /\ attempt' = IF pc = "sleep_inner" THEN <<attempt[1], 2>> ELSE <<2, 1>>
    /\ pc' = "query"
    /\ UNCHANGED <<call, result, err, environ>>

\* infosAreOff(infos) and infosAreOn(infos) of lsf.py called directly.
CallPure ==
    /\ pc = "idle"
    /\ \E fn \in {"infosAreOff", "infosAreOn"}, l \in InfoLists :
          /\ call' = MkCall("app", fn, List(l), FALSE, DefaultDelay)
          /\ result' = Bool(IF fn = "infosAreOff" THEN infosAreOff(l) ELSE infosAreOn(l))
    /\ pc' = "done"
    /\ UNCHANGED <<attempt, events, err, environ>>

\* bsub of lsf.py or submitToLSF of LSF.py is called.
CallSubmit ==
    /\ pc = "idle"
    /\ \E c \in SubmitCalls :
          /\ (c.mod = "app") = (c.fn = "bsub")
          /\ call' = c
    /\ pc' = "submit"
    /\ UNCHANGED <<attempt, events, result, err, environ>>

\* The submission command runs and prints; the code looks for the job id.
SubmitOk(run) ==
    /\ pc = "submit"
    /\ events' = Append(events, SubmitEvent(SubmitArgs(call), run.out))
    /\ End(SubmitFinish(run.id))
    /\ UNCHANGED <<call, attempt, environ>>

\* check_output or execute.run raises, and nothing catches it.
SubmitFail(e) ==
    /\ pc = "submit"
    /\ events' = Append(events, FailedEvent("submit", SubmitArgs(call), e))
    /\ pc' = "raised"
    /\ err' = e
    /\ UNCHANGED <<call, attempt, result, environ>>

Submit == (\E run \in SubmitRuns : SubmitOk(run)) \/ (\E e \in CommandErrors : SubmitFail(e))

\* The caller has the value or the exception; the next call starts afresh.
Finished ==
    /\ pc \in {"done", "raised"}
    /\ pc' = "idle"
    /\ call' = None
    /\ attempt' = <<1, 1>>
    /\ events' = << >>
    /\ result' = None
    /\ err' = None
    /\ UNCHANGED environ

Next == CallStatus \/ Query \/ Sleep \/ CallPure \/ CallSubmit \/ Submit \/ Finished

Spec == Init /\ [][Next]_vars

\* The parser on its own: one query by name, no retry, over the lines made
\* for it.
NextParse == CallParse \/ QueryParse \/ Finished

SpecParse == Init /\ [][NextParse]_vars

(***************************************************************************)
(* What the claims speak of.                                               *)
(***************************************************************************)

QueryFns == NameFns \cup {"getJobInfos", "getJobStatuses"}

\* A call of a status function has ended, with a value or an exception.
StatusCallEnded == pc \in {"done", "raised"} /\ call.fn \in QueryFns

AllOk == \A i \in 1..Len(events) : events[i].ok

LastEvent == events[Len(events)]

TerminalStatuses == { <<"D", "O", "N", "E">>, <<"E", "X", "I", "T">>, <<"Z", "O", "M", "B", "I">> }

\* The positions of the records of l whose status is not terminal.
OnPositions(l) == {i \in 1..Len(l) : l[i].status \notin TerminalStatuses}

\* What each status function is to return for the infos of its last query.
ExpectedResult(c, l) ==
    CASE c.fn \in {"getJobNameInfos", "getJobInfos"} -> List(l)
      [] c.fn \in {"getJobNameStatuses", "getJobStatuses"} ->
            List([i \in 1..Len(l) |-> l[i].status])
      [] c.fn = "isJobNameOff" -> Bool(OnPositions(l) = {})
      [] c.fn = "isJobNameOn" -> Bool(OnPositions(l) /= {})

\* The external calls of a finished status call are one query, or a query
\* that parsed to nothing, a sleep of the call's delay and a second query.
OneQuery == Len(events) = 1 /\ events[1].t = "query"

QuerySleepQuery ==
    /\ Len(events) = 3
    /\ events[1].t = "query" /\ events[1].infos = << >>
    /\ events[2] = SleepEvent(call.delay)
    /\ events[3].t = "query"
    /\ events[3].args = events[1].args

\* C1: a status query with retry=false runs the status command exactly
\* once; with retry=true and a non-empty first parsed result exactly once
\* and without a sleep; with retry=true and an empty first parsed result the
\* events are query, sleep(delay), query, never a third query; and the
\* value returned is computed from the result of the last query.
C1_RetrySemantics ==
    /\ pc /= "idle" =>
          /\ Len(events) <= 3
          /\ Cardinality({i \in 1..Len(events) : events[i].t = "query"}) <= 2
    /\ StatusCallEnded /\ AllOk =>
          /\ ~call.retry => OneQuery
          /\ call.retry /\ events[1].infos /= << >> => OneQuery
          /\ call.retry /\ events[1].infos = << >> => QuerySleepQuery
          /\ pc = "done" => result = ExpectedResult(call, LastEvent.infos)

C1_Witness ==
    /\ pc = "done" /\ call.fn = "getJobNameStatuses" /\ call.mod = "app"
    /\ call.retry /\ call.delay = 5
    /\ QuerySleepQuery
    /\ result = List(<<RUN>>)

\* C2: infosAreOff(records) is true exactly when no record has a status
\* other than DONE, EXIT and ZOMBI (so also for the empty list), and
\* infosAreOn(records) is its negation.
C2_OffOn ==
    pc = "done" /\ call.fn \in {"infosAreOff", "infosAreOn"} =>
        LET allTerminal == \A i \in 1..Len(call.arg.v) :
                               call.arg.v[i].status \in TerminalStatuses
        IN  result = Bool(IF call.fn = "infosAreOff" THEN allTerminal ELSE ~allTerminal)

C2_Witness ==
    /\ pc = "done" /\ call.fn = "infosAreOff"
    /\ Len(call.arg.v) = 3
    /\ call.arg.v[1].status = <<"Z", "O", "M", "B", "I">>
    /\ call.arg.v[2].status = <<"E", "X", "I", "T">>
    /\ call.arg.v[3].status = <<"D", "O", "N", "E">>
    /\ result = Bool(TRUE)

\* A described line that ends with a newline.
Terminated(d) == d.term /= << >> /\ d.term[Len(d.term)] = "\n"

\* A described line with the layout jobId userId status queue fromHost
\* execHost jobName submitTime: it starts with its first token and has six
\* tokens, a job name of at least one token and three tokens of submit time.
HasLayout(d) == d.lead = << >> /\ Len(d.toks) >= 10

\* The record of a line with the layout: the first token, the third token,
\* and the text from the seventh token to the fourth from last.
LayoutInfo(d) ==
    [jobid |-> d.toks[1],
     status |-> d.toks[3],
     job_name |-> Weave(SubSeq(d.toks, 7, Len(d.toks) - 3),
                        SubSeq(d.gaps, 7, Len(d.toks) - 4))]

\* A described line with fewer than nine tokens: the header, a message, a
\* blank line.
FewTokens(d) == Len(d.toks) < 9

\* The records of the terminated lines of ds that have the layout, in order.
RECURSIVE LayoutInfos(_)
LayoutInfos(ds) ==
    IF ds = << >> THEN << >>
    ELSE (IF HasLayout(Head(ds)) /\ Terminated(Head(ds))
          THEN <<LayoutInfo(Head(ds))>> ELSE << >>) \o LayoutInfos(Tail(ds))

Lines(ev) == {ev.desc[i] : i \in 1..Len(ev.desc)}

\* C3: when every line of the output ends with a newline and has the
\* layout, the parser returns one record per line, in line order, with the
\* first token as jobid, the third as status and the text between the sixth
\* token and the submit time, stripped, as job_name, and no other field.
C3_LayoutLinesParsed ==
    \A i \in 1..Len(events) :
        (/\ events[i].t = "query" /\ events[i].ok
         /\ \A d \in Lines(events[i]) : Terminated(d) /\ HasLayout(d))
        => /\ events[i].infos = [k \in 1..Len(events[i].desc) |-> LayoutInfo(events[i].desc[k])]
           /\ \A k \in 1..Len(events[i].infos) :
                 DOMAIN events[i].infos[k] = {"jobid", "status", "job_name"}

C3_Witness ==
    /\ pc = "done" /\ call.fn = "getJobNameInfos"
    /\ Len(events) = 1 /\ Len(events[1].desc) = 2
    /\ \A d \in Lines(events[1]) : Terminated(d) /\ HasLayout(d)
    /\ result = List(<< [jobid |-> <<"4", "1">>, status |-> <<"R", "U", "N">>,
                         job_name |-> <<"a", " ", "b", "c">>],
                        [jobid |-> <<"4", "1">>, status |-> <<"D", "O", "N", "E">>,
                         job_name |-> <<"a">>] >>)

ExampleRecord ==
    [jobid |-> <<"4", "6", "1", "8", "3", "0">>,
     status |-> <<"R", "U", "N">>,
     job_name |-> <<"f", "o", "o", " ", "b", "a", "r">>]

\* C4: the line "461830  td23    RUN   cbi_unlimited host1 host2 foo bar
\* Mar  3 10:36" parses to {461830, RUN, "foo bar"}, with a newline after it
\* and also when nothing follows the submit time.
C4_ExampleLineParses ==
    \A i \in 1..Len(events) :
        (/\ events[i].t = "query" /\ events[i].ok
         /\ events[i].desc \in {<<ExampleLine(NL)>>, <<ExampleLine(<< >>)>>})
        => events[i].infos = <<ExampleRecord>>

\* C5: lines with fewer than nine tokens (the header, "Job <bar> is not
\* found", blank lines) give no record and no error and do not stop the
\* lines after them from being parsed; when the output has no other line,
\* or no line at all, the query by name returns the empty list and
\* isJobNameOff returns true.
C5_OtherLinesSkipped ==
    \A i \in 1..Len(events) :
        (/\ events[i].t = "query" /\ events[i].ok
         /\ events[i].desc = << >> \/ \E d \in Lines(events[i]) : FewTokens(d)
         /\ \A d \in Lines(events[i]) : FewTokens(d) \/ (HasLayout(d) /\ Terminated(d)))
        => /\ events[i].infos = LayoutInfos(events[i].desc)
           /\ (pc = "raised" => err = MultipleJobs)
           /\ (\A d \in Lines(events[i]) : FewTokens(d)) /\ call \in ParseCalls =>
                 /\ pc = "done"
                 /\ result = IF call.fn = "isJobNameOff" THEN Bool(TRUE) ELSE List(<< >>)

C5_Witness ==
    /\ pc = "done" /\ call.fn = "getJobNameInfos"
    /\ Len(events) = 1 /\ Len(events[1].desc) = 2
    /\ events[1].desc[1] = NotFoundLine
    /\ HasLayout(events[1].desc[2])
    /\ Len(result.v) = 1

\* C6: when a run of the status command fails, the call raises that error
\* and returns nothing: the failed run is the last external call, so a
\* failed first query is followed by no sleep and no second query, and a
\* failed second query is not replaced by the empty result of the first.
C6_FailurePropagates ==
    /\ \A i \in 1..Len(events) :
          events[i].t = "query" /\ ~events[i].ok =>
              /\ i = Len(events)
              /\ pc = "raised"
              /\ err = events[i].e
              /\ result = None
    /\ pc = "done" /\ call.fn \in QueryFns => AllOk

C6_Witness ==
    /\ pc = "raised" /\ call.fn = "isJobNameOff" /\ call.mod = "app"
    /\ Len(events) = 3
    /\ events[1].ok /\ events[1].infos = << >>
    /\ events[2].t = "sleep"
    /\ ~events[3].ok /\ err = "CalledProcessError"


DigitChars == {"0", "1", "2", "3", "4", "5", "6", "7", "8", "9"}

\* The pairs <<p, q>> such that out[p] is "<", out[q] is ">" and a non-empty
\* run of digits lies between them.
JobIdSpans(out) ==
    {s \in (1..Len(out)) \X (1..Len(out)) :
        /\ s[2] > s[1] + 1
        /\ out[s[1]] = "<" /\ out[s[2]] = ">"
        /\ \A k \in (s[1] + 1)..(s[2] - 1) : out[k] \in DigitChars}

C9_OnRaisesOnMultipleJobs ==
    (/\ pc \in {"done", "raised"}
     /\ call.mod = "app" /\ call.fn = "isJobNameOn"
     /\ AllOk)
    => IF Len(LastEvent.infos) > 1
       THEN pc = "raised"
       ELSE pc = "done" /\ result = Bool(OnPositions(LastEvent.infos) /= {})

BjobsAllWide == << <<"b", "j", "o", "b", "s">>, <<"-", "a">>, <<"-", "u">>, <<"a", "l", "l">>, <<"-", "w">> >>

\* The text of an identifier: a string is its own text, the integer 120 is
\* written "120".
IdText(x) == IF x.t = "str" THEN x.v ELSE IF x.v = 120 THEN <<"1", "2", "0">> ELSE << >>

GetJobInfosQueries == {i \in 1..Len(events) : events[i].t = "query" /\ call.fn = "getJobInfos"}

\* C10 as stated: getJobInfos called with None or with an empty list runs
\* bjobs -a -u all -w 0, and with a non-empty list bjobs -a -u all -w
\* followed by the ids as strings in the given order.
C10_EmptyLikeUnset ==
    \A i \in GetJobInfosQueries :
        IF call.arg = None \/ call.arg = List(<< >>)
        THEN events[i].args = BjobsAllWide \o << <<"0">> >>
        ELSE events[i].args = BjobsAllWide \o [k \in 1..Len(call.arg.v) |-> IdText(call.arg.v[k])]

\* C10 amended: getJobInfos called with None runs bjobs -a -u all -w 0;
\* called with a list it runs bjobs -a -u all -w followed by the ids of the
\* list as strings in the given order, which for the empty list is no
\* identifier argument at all; there is never a -J option.
C10_IdArguments ==
    \A i \in GetJobInfosQueries :
        /\ call.arg = None => events[i].args = BjobsAllWide \o << <<"0">> >>
        /\ call.arg = List(<< >>) => events[i].args = BjobsAllWide
        /\ call.arg /= None =>
              events[i].args = BjobsAllWide \o [k \in 1..Len(call.arg.v) |-> IdText(call.arg.v[k])]
        /\ \A k \in 1..Len(events[i].args) : events[i].args[k] /= <<"-", "J">>

C10_Witness ==
    /\ pc = "done" /\ call.fn = "getJobInfos" /\ call.arg = List(<< >>)
    /\ Len(events) = 1 /\ events[1].t = "query" /\ events[1].ok
    /\ events[1].args = BjobsAllWide

(***************************************************************************)
(* dbutil.py: doTransaction around a body, with executeSQL and doCursor.   *)
(* pc is where the use of the context manager stands: tx_cursor (about to  *)
(* call conn.cursor()), tx_execute (about to call cursor.execute), tx_close *)
(* (about to call cursor.close()), tx_body (the body of the with statement *)
(* has the connection), tx_commit, tx_rollback, done and raised.  err is   *)
(* the exception in flight, None when there is none.  Every method of the  *)
(* connection and of the cursor can return or raise.                       *)
(***************************************************************************)

MaxBodyOps == 2

\* An exception is known by its type and by the call that raised it.
Exc(type, from) == [type |-> type, from |-> from]

DbErrors == {"OperationalError", "ProgrammingError"}

\* The body can raise anything; the bare except catches all of it.
BodyErrors == {"ValueError", "KeyboardInterrupt"}

StartSQLs == {<<"S", "T", "A", "R", "T", " ", "T", "R", "A", "N", "S", "A", "C", "T", "I", "O", "N">>,
              <<"B", "E", "G", "I", "N">>}

TransactionCalls ==
    { MkCall("dbutil", "doTransaction", [start |-> start, startSQL |-> StrVal(sql)],
             FALSE, DefaultDelay) :
        start \in BOOLEAN, sql \in StartSQLs }

\* A call of a method of the connection or of its cursor, or a step of the
\* body: yield (the body gets conn), use (the body works with conn) and
\* exit (the body ends).
DbEvent(t, args, ok, e) ==
    [t |-> t, args |-> args, ok |-> ok, e |-> e, desc |-> << >>, infos |-> << >>, d |-> 0]

DbOk(t, args) == DbEvent(t, args, TRUE, "")

DbRaised(t, args, e) == DbEvent(t, args, FALSE, e)

\* with doTransaction(conn, start, startSQL): `if start: executeSQL(conn,
\* startSQL)` begins with conn.cursor(); otherwise `yield conn`.
CallTransaction ==
    /\ pc = "idle"
    /\ \E c \in TransactionCalls :
          /\ call' = c
          /\ IF c.arg.start
             THEN pc' = "tx_cursor" /\ UNCHANGED events
             ELSE pc' = "tx_body" /\ events' = <<DbOk("yield", << >>)>>
    /\ UNCHANGED <<attempt, result, err, environ>>

\* doCursor: cursor = conn.cursor(), outside its try.
CursorOpenOk ==
    /\ pc = "tx_cursor"
    /\ events' = Append(events, DbOk("cursor", << >>))
    /\ pc' = "tx_execute"
    /\ UNCHANGED <<call, attempt, result, err, environ>>

CursorOpenFail(ty) ==
    /\ pc = "tx_cursor"
    /\ events' = Append(events, DbRaised("cursor", << >>, Exc(ty, "cursor")))
    /\ err' = Exc(ty, "cursor")
    /\ pc' = "tx_rollback"
    /\ UNCHANGED <<call, attempt, result, environ>>

CursorOpen == CursorOpenOk \/ \E ty \in DbErrors : CursorOpenFail(ty)

\* executeSQL: cursor.execute(sql, args) inside `with doCursor(conn)`;
\* either way doCursor's finally comes next.
ExecuteOk ==
    /\ pc = "tx_execute"
    /\ events' = Append(events, DbOk("execute", <<call.arg.startSQL, None>>))
    /\ pc' = "tx_close"
    /\ UNCHANGED <<call, attempt, result, err, environ>>

\* cursor.execute raises and doCursor has no finally.
ExecuteFail_NoFinally(ty) ==
    /\ pc = "tx_execute"
    /\ events' = Append(events, DbRaised("execute", <<call.arg.startSQL, None>>, Exc(ty, "execute")))
    /\ err' = Exc(ty, "execute")
    /\ pc' = "tx_rollback"
    /\ UNCHANGED <<call, attempt, result, environ>>

ExecuteFail(ty) ==
    /\ pc = "tx_execute"
    /\ events' = Append(events, DbRaised("execute", <<call.arg.startSQL, None>>, Exc(ty, "execute")))
    /\ err' = Exc(ty, "execute")
    /\ pc' = "tx_close"
    /\ UNCHANGED <<call, attempt, result, environ>>

Execute == ExecuteOk \/ \E ty \in DbErrors : ExecuteFail(ty)

\* doCursor: finally cursor.close(); then the exception in flight goes on to
\* the except of doTransaction, or with none `yield conn` gives the body
\* the connection.
CursorCloseOk ==
    /\ pc = "tx_close"
    /\ IF err = None
       THEN /\ events' = events \o <<DbOk("close", << >>), DbOk("yield", << >>)>>
            /\ pc' = "tx_body"
       ELSE /\ events' = Append(events, DbOk("close", << >>))
            /\ pc' = "tx_rollback"
    /\ UNCHANGED <<call, attempt, result, err, environ>>

\* cursor.close() raises: its exception is the one in flight from here on.
CursorCloseFail(ty) ==
    /\ pc = "tx_close"
    /\ events' = Append(events, DbRaised("close", << >>, Exc(ty, "close")))
    /\ err' = Exc(ty, "close")
    /\ pc' = "tx_rollback"
    /\ UNCHANGED <<call, attempt, result, environ>>

CursorClose == CursorCloseOk \/ \E ty \in DbErrors : CursorCloseFail(ty)

BodyUses == Cardinality({i \in 1..Len(events) : events[i].t = "use"})

\* The body of the with statement works with the connection it was given.
BodyUse ==
    /\ pc = "tx_body"
    /\ BodyUses < MaxBodyOps
    /\ events' = Append(events, DbOk("use", << >>))
    /\ UNCHANGED <<pc, call, attempt, result, err, environ>>

\* The body ends: the generator is resumed after the yield and control
\* reaches the else of doTransaction.
BodyReturn ==
    /\ pc = "tx_body"
    /\ events' = Append(events, DbOk("exit", << >>))
    /\ pc' = "tx_commit"
    /\ UNCHANGED <<call, attempt, result, err, environ>>

\* The body raises: the exception is thrown into the generator at the
\* yield and the bare except of doTransaction catches it.
BodyRaise(ty) ==
    /\ pc = "tx_body"
    /\ events' = Append(events, DbRaised("exit", << >>, Exc(ty, "body")))
    /\ err' = Exc(ty, "body")
    /\ pc' = "tx_rollback"
    /\ UNCHANGED <<call, attempt, result, environ>>

Body == BodyUse \/ BodyReturn \/ \E ty \in BodyErrors : BodyRaise(ty)

\* else: conn.commit()
CommitOk ==
    /\ pc = "tx_commit"
    /\ events' = Append(events, DbOk("commit", << >>))
    /\ pc' = "done"
    /\ UNCHANGED <<call, attempt, result, err, environ>>

\* conn.commit() raises and the except of the same try catches it.
CommitFail_Caught(ty) ==
    /\ pc = "tx_commit"
    /\ events' = Append(events, DbRaised("commit", << >>, Exc(ty, "commit")))
    /\ err' = Exc(ty, "commit")
    /\ pc' = "tx_rollback"
    /\ UNCHANGED <<call, attempt, result, environ>>

\* conn.commit() raises in the else clause, which the except does not guard.
CommitFail(ty) ==
    /\ pc = "tx_commit"
    /\ events' = Append(events, DbRaised("commit", << >>, Exc(ty, "commit")))
    /\ err' = Exc(ty, "commit")
    /\ pc' = "raised"
    /\ UNCHANGED <<call, attempt, result, environ>>

Commit == CommitOk \/ \E ty \in DbErrors : CommitFail(ty)

\* except: conn.rollback(); raise
RollbackOk ==
    /\ pc = "tx_rollback"
    /\ events' = Append(events, DbOk("rollback", << >>))
    /\ pc' = "raised"
    /\ UNCHANGED <<call, attempt, result, err, environ>>

\* conn.rollback() raises: the bare raise after it is not reached.
RollbackFail(ty) ==
    /\ pc = "tx_rollback"
    /\ events' = Append(events, DbRaised("rollback", << >>, Exc(ty, "rollback")))
    /\ err' = Exc(ty, "rollback")
    /\ pc' = "raised"
    /\ UNCHANGED <<call, attempt, result, environ>>

Rollback == RollbackOk \/ \E ty \in DbErrors : RollbackFail(ty)

NextDb ==
    CallTransaction \/ CursorOpen \/ Execute \/ CursorClose \/ Body \/ Commit \/ Rollback \/ Finished

SpecDb == Init /\ [][NextDb]_vars

(***************************************************************************)
(* What the claims about doTransaction speak of.                           *)
(***************************************************************************)

EventsOf(t) == {i \in 1..Len(events) : events[i].t = t}

FailedOf(t) == {i \in EventsOf(t) : ~events[i].ok}

InTransaction == pc /= "idle" /\ call.fn = "doTransaction"

TransactionEnded == pc \in {"done", "raised"} /\ call.fn = "doTransaction"

\* The one event of kind t, when there is exactly one.
TheEvent(t) == events[CHOOSE i \in EventsOf(t) : TRUE]

\* commit and rollback are called at most once between them, and in a use
\* whose body was entered only after the body has ended.
AtMostOneAfterBody ==
    /\ Cardinality(EventsOf("commit")) + Cardinality(EventsOf("rollback")) <= 1
    /\ EventsOf("yield") /= {} =>
          \A i \in EventsOf("commit") \cup EventsOf("rollback") :
              \E x \in EventsOf("exit") : x < i

\* C11 as stated: in every use of doTransaction whose body is entered,
\* exactly one of commit and rollback is called, once and after the body;
\* if the body raises it is rollback and the same exception propagates; if
\* the body returns it is commit, also when commit raises.
C11_SameExceptionPropagates ==
    InTransaction /\ EventsOf("yield") /= {} =>
        /\ AtMostOneAfterBody
        /\ TransactionEnded =>
              /\ Cardinality(EventsOf("exit")) = 1
              /\ IF TheEvent("exit").ok
                 THEN Cardinality(EventsOf("commit")) = 1 /\ EventsOf("rollback") = {}
                 ELSE /\ Cardinality(EventsOf("rollback")) = 1 /\ EventsOf("commit") = {}
                      /\ pc = "raised"
                      /\ err = TheEvent("exit").e

\* C11 amended: as C11, but the exception of the body propagates when
\* rollback returns, and the exception of rollback propagates in its place
\* when rollback itself raises; when the body returns, the use ends
\* normally if commit returns and with the exception of commit if not.
C11_OutcomeOfBody ==
    InTransaction /\ EventsOf("yield") /= {} =>
        /\ AtMostOneAfterBody
        /\ TransactionEnded =>
              /\ Cardinality(EventsOf("exit")) = 1
              /\ IF TheEvent("exit").ok
                 THEN /\ Cardinality(EventsOf("commit")) = 1 /\ EventsOf("rollback") = {}
                      /\ IF TheEvent("commit").ok THEN pc = "done" /\ err = None
                         ELSE pc = "raised" /\ err = TheEvent("commit").e
                 ELSE /\ Cardinality(EventsOf("rollback")) = 1 /\ EventsOf("commit") = {}
                      /\ pc = "raised"
                      /\ err = IF TheEvent("rollback").ok THEN TheEvent("exit").e
                               ELSE TheEvent("rollback").e

C11_Witness ==
    /\ pc = "raised" /\ call.fn = "doTransaction"
    /\ Len(events) = 4
    /\ events[1].t = "yield" /\ events[2].t = "use"
    /\ events[3].t = "exit" /\ ~events[3].ok
    /\ events[4].t = "rollback" /\ events[4].ok
    /\ err = [type |-> "KeyboardInterrupt", from |-> "body"]

\* The events up to the one at which the body gets the connection.
StartEvents == SubSeq(events, 1, (CHOOSE y \in EventsOf("yield") : TRUE) - 1)

StartStatementRan ==
    /\ Len(StartEvents) = 3
    /\ StartEvents[1].t = "cursor" /\ StartEvents[1].ok
    /\ StartEvents[2].t = "execute" /\ StartEvents[2].ok
    /\ StartEvents[2].args = <<call.arg.startSQL, [t |-> "none"]>>
    /\ StartEvents[3].t = "close" /\ StartEvents[3].ok

\* When the start statement raised: no body, one rollback, no commit, and
\* cursor.close() called after the statement.
StartFailureHandled ==
    /\ EventsOf("yield") = {} /\ EventsOf("use") = {} /\ EventsOf("exit") = {}
    /\ Cardinality(EventsOf("rollback")) = 1
    /\ EventsOf("commit") = {}
    /\ Cardinality(EventsOf("close")) = 1
    /\ \A i \in EventsOf("execute") : \A j \in EventsOf("close") : i < j
    /\ \A j \in EventsOf("close") : \A k \in EventsOf("rollback") : j < k
    /\ pc = "raised"

\* C14 as stated: with start=True the body gets the connection after the
\* start statement ran on a cursor of conn and the cursor was closed, with
\* start=False after nothing; if the start statement raises, the body never
\* runs, rollback is called once, commit never, the cursor is closed and
\* the exception of the statement propagates.
C14_StartExceptionPropagates ==
    InTransaction =>
        /\ EventsOf("yield") /= {} =>
              IF call.arg.start THEN StartStatementRan ELSE StartEvents = << >>
        /\ TransactionEnded /\ FailedOf("execute") /= {} =>
              /\ StartFailureHandled
              /\ err = TheEvent("execute").e

\* C14 amended: as C14, but the exception that propagates is that of the
\* start statement when cursor.close() and conn.rollback() return, and
\* otherwise that of the last of the two that raised.
C14_StartStatement ==
    InTransaction =>
        /\ EventsOf("yield") /= {} =>
              IF call.arg.start THEN StartStatementRan ELSE StartEvents = << >>
        /\ TransactionEnded /\ FailedOf("execute") /= {} =>
              /\ StartFailureHandled
              /\ err = IF ~TheEvent("rollback").ok THEN TheEvent("rollback").e
                       ELSE IF ~TheEvent("close").ok THEN TheEvent("close").e
                       ELSE TheEvent("execute").e

C14_Witness ==
    /\ pc = "raised" /\ call.fn = "doTransaction" /\ call.arg.start
    /\ Len(events) = 4
    /\ events[1].t = "cursor" /\ events[1].ok
    /\ events[2].t = "execute" /\ ~events[2].ok
    /\ events[2].args[1] = [t |-> "str", v |-> <<"B", "E", "G", "I", "N">>]
    /\ events[3].t = "close" /\ events[3].ok
    /\ events[4].t = "rollback" /\ events[4].ok
    /\ err = [type |-> "OperationalError", from |-> "execute"]

\* The tokens of the command of a call of bsub: those of the list, or for
\* the string " ls  -l\ta" the three words in it.
BsubCommandTokens(c) ==
    IF c.arg.cmd = [t |-> "str", v |-> <<" ", "l", "s", " ", " ", "-", "l", "\t", "a">>]
    THEN << <<"l", "s">>, <<"-", "l">>, <<"a">> >>
    ELSE c.arg.cmd.v

BsubOptionTokens(c) == IF c.arg.options = [t |-> "none"] THEN << >> ELSE c.arg.options.v

NamedJobLine(id, st, name) ==
    Line(<< >>,
         << id, <<"t", "d", "2", "3">>, st, <<"q">>, <<"h", "1">>, <<"-">>, name, <<"M", "a", "r">>, <<"3">>, <<"1", "0", ":", "3", "6">> >>,
         << Sp(2), Sp(1), Sp(1), Sp(1), Sp(1), Sp(1), Sp(2), Sp(2), Sp(1) >>,
         << >>, NL)

ListingNames == { <<"f", "o", "o">>, <<"b", "a", "r">> }

ListingLines ==
    {HeaderLine} \cup
    {NamedJobLine(<<"4", "1">>, st, name) : st \in {RUN, DONE_STATUS, ZOMBIE_STATUS}, name \in ListingNames}

ListingOutputs == SeqsUpTo(ListingLines, MaxLines)

ListingRuns == {BjobsRun(ds) : ds \in ListingOutputs}

Dict(f) == [t |-> "dict", v |-> f]

\* The dictionary that keeps for each name only the record seen last.
getJobNameToInfos_LastOnly(infos) ==
    [name \in {infos[i].job_name : i \in 1..Len(infos)} |->
        LET own == SelectSeq(infos, LAMBDA info : info.job_name = name)
        IN  <<own[Len(own)]>>]

\* getJobNameToInfos after getJobInfos() returned infos: each info is
\* appended to the list of its job name.
getJobNameToInfos(infos) ==
    [name \in {infos[i].job_name : i \in 1..Len(infos)} |->
        SelectSeq(infos, LAMBDA info : info.job_name = name)]

\* The orders in which a dictionary with the keys S can be iterated.
KeyOrders(S) ==
    {s \in [1..Cardinality(S) -> S] : \A i, j \in 1..Cardinality(S) : i /= j => s[i] /= s[j]}

\* getOnJobNames: the names, in the order keys of the dictionary, whose
\* infos are on.
getOnJobNames(jobNameToInfos, keys) ==
    SelectSeq(keys, LAMBDA name : infosAreOn(jobNameToInfos[name]))

ListingCalls ==
    {MkCall("app", fn, None, FALSE, DefaultDelay) : fn \in {"getOnJobNames", "getJobNameToInfos"}}

CallListing ==
    /\ pc = "idle"
    /\ \E c \in ListingCalls : call' = c
    /\ pc' = "listing"
    /\ UNCHANGED <<attempt, events, result, err, environ>>

\* getJobInfos() runs bjobs once; its infos are grouped, and for
\* getOnJobNames the names are filtered in the dictionary's order.
ListingOk(run) ==
    /\ pc = "listing"
    /\ events' = Append(events, QueryEvent(getJobInfosArgs(None), run.ds, run.infos))
    /\ IF call.fn = "getJobNameToInfos"
       THEN result' = Dict(getJobNameToInfos(run.infos))
       ELSE \E keys \in KeyOrders(DOMAIN getJobNameToInfos(run.infos)) :
               result' = List(getOnJobNames(getJobNameToInfos(run.infos), keys))
    /\ pc' = "done"
    /\ UNCHANGED <<call, attempt, err, environ>>

ListingFail(e) ==
    /\ pc = "listing"
    /\ events' = Append(events, FailedEvent("query", getJobInfosArgs(None), e))
    /\ pc' = "raised"
    /\ err' = e
    /\ UNCHANGED <<call, attempt, result, environ>>

Listing == (\E run \in ListingRuns : ListingOk(run)) \/ (\E e \in CommandErrors : ListingFail(e))

NextListing == CallListing \/ Listing \/ Finished

SpecListing == Init /\ [][NextListing]_vars

\* How many times r occurs in the sequence s.
Count(s, r) == Cardinality({i \in 1..Len(s) : s[i] = r})

\* C13: getOnJobNames makes one query, bjobs -a -u all -w 0, and returns
\* once each the names that have a record of the listing whose status is
\* not DONE, EXIT or ZOMBI, and no other name; getJobNameToInfos has every
\* record of the listing in the group of its job_name as many times as it
\* is in the listing, and in no other group.
C13_OnJobNames ==
    pc = "done" /\ call.fn \in {"getOnJobNames", "getJobNameToInfos"} =>
        LET l == events[1].infos
        IN  /\ OneQuery
            /\ events[1].args = BjobsAllWide \o << <<"0">> >>
            /\ call.fn = "getOnJobNames" =>
                  /\ result.t = "list"
                  /\ \A i, j \in 1..Len(result.v) : i /= j => result.v[i] /= result.v[j]
                  /\ {result.v[i] : i \in 1..Len(result.v)} = {l[i].job_name : i \in OnPositions(l)}
            /\ call.fn = "getJobNameToInfos" =>
                  /\ result.t = "dict"
                  /\ DOMAIN result.v = {l[i].job_name : i \in 1..Len(l)}
                  /\ \A name \in DOMAIN result.v : \A i \in 1..Len(l) :
                        Count(result.v[name], l[i]) =
                            IF l[i].job_name = name THEN Count(l, l[i]) ELSE 0
                  /\ \A name \in DOMAIN result.v : \A k \in 1..Len(result.v[name]) :
                        /\ result.v[name][k].job_name = name
                        /\ \E i \in 1..Len(l) : l[i] = result.v[name][k]

C13_Witness ==
    /\ pc = "done" /\ call.fn = "getOnJobNames"
    /\ Len(events[1].infos) = 2
    /\ events[1].infos[1].job_name = <<"f", "o", "o">> /\ events[1].infos[1].status = RUN
    /\ events[1].infos[2].job_name = <<"f", "o", "o">> /\ events[1].infos[2].status = <<"D", "O", "N", "E">>
    /\ result = List(<< <<"f", "o", "o">> >>)

(***************************************************************************)
(* setEnviron of lsf.py and of LSF.py.  The environment is a record with   *)
(* the six variables setEnviron writes and one it does not; a variable is  *)
(* a string, or None when it is not set.                                   *)
(***************************************************************************)

MaxCalls == 3

\* os.path.join(a, b) of posixpath
PathJoin(a, b) ==
    IF b /= << >> /\ b[1] = "/" THEN b
    ELSE IF a = << >> \/ a[Len(a)] = "/" THEN a \o b
    ELSE a \o <<"/">> \o b

\* s.split(sep) for a separator of one character
RECURSIVE Split(_, _)
Split(s, sep) ==
    LET at == {j \in 1..Len(s) : s[j] = sep}
    IN  IF at = {} THEN <<s>>
        ELSE <<SubSeq(s, 1, Least(at) - 1)>> \o Split(SubSeq(s, Least(at) + 1, Len(s)), sep)

pathsep == ":"

\* lsf.py setEnviron(lsfDir, confDir)
app_setEnviron(env, lsfDir, confDir) ==
    LET binDir == PathJoin(lsfDir, <<"b", "i", "n">>)
        entries == Split(env.PATH.v, pathsep)
    IN  [env EXCEPT
            !.LSF_BINDIR = StrVal(binDir),
            !.LSF_ENVDIR = StrVal(confDir),
            !.LSF_LIBDIR = StrVal(PathJoin(lsfDir, <<"l", "i", "b">>)),
            !.LSF_SERVERDIR = StrVal(PathJoin(lsfDir, <<"e", "t", "c">>)),
            !.XLSF_UIDDIR = StrVal(PathJoin(PathJoin(lsfDir, <<"l", "i", "b">>), <<"u", "i", "d">>)),
            !.PATH = IF env.PATH = None THEN StrVal(binDir)
                     ELSE IF \E k \in 1..Len(entries) : entries[k] = binDir THEN env.PATH
                     ELSE StrVal(env.PATH.v \o <<pathsep>> \o binDir)]

LSF_DIR == <<"/", "o", "p", "t", "/", "l", "s", "f", "/", "7", ".", "0", "/", "l", "i", "n", "u", "x", "2", ".", "6", "-", "g", "l", "i", "b", "c", "2", ".", "3", "-", "x", "8", "6", "_", "6", "4">>

CONF_DIR == <<"/", "o", "p", "t", "/", "l", "s", "f", "/", "c", "o", "n", "f">>

\* LSF.py setEnviron()
web_setEnviron(env) ==
    LET BIN_DIR == PathJoin(LSF_DIR, <<"b", "i", "n">>)
    IN  [env EXCEPT
            !.LSF_BINDIR = StrVal(BIN_DIR),
            !.LSF_ENVDIR = StrVal(CONF_DIR),
            !.LSF_LIBDIR = StrVal(PathJoin(LSF_DIR, <<"l", "i", "b">>)),
            !.LSF_SERVERDIR = StrVal(PathJoin(LSF_DIR, <<"e", "t", "c">>)),
            !.PATH = IF env.PATH /= None
                     THEN StrVal(env.PATH.v \o <<pathsep>> \o BIN_DIR)
                     ELSE StrVal(BIN_DIR)]

LsfDirs == { <<"/", "l">>, <<"/", "m", "/">> }

ConfDirs == { <<"/", "c">> }

\* PATH at the start: unset, empty, without the bin directory, with it
\* first or last, and with an entry that only begins with it.
StartPaths ==
    {None} \cup
    {StrVal(p) : p \in { << >>, <<"/", "b">>, <<"/", "l", "/", "b", "i", "n">>, <<"/", "b", ":", "/", "l", "/", "b", "i", "n">>, <<"/", "l", "/", "b", "i", "n", ":", "/", "b">>, <<"/", "l", "/", "b", "i", "n", "x">>,
                         <<"/", "b", ":", "/", "o", "p", "t", "/", "l", "s", "f", "/", "7", ".", "0", "/", "l", "i", "n", "u", "x", "2", ".", "6", "-", "g", "l", "i", "b", "c", "2", ".", "3", "-", "x", "8", "6", "_", "6", "4", "/", "b", "i", "n">> }}

Environs ==
    {[StartEnviron EXCEPT !.PATH = p, !.LSF_BINDIR = b] :
        p \in StartPaths, b \in {None, StrVal(<<"/", "o", "l", "d">>)}}

InitEnv ==
    /\ pc = "idle"
    /\ call = None
    /\ attempt = <<1, 1>>
    /\ events = << >>
    /\ result = None
    /\ err = None
    /\ environ \in Environs

SetEnvironEvent(args) ==
    [t |-> "setEnviron", args |-> args, ok |-> TRUE, e |-> "", desc |-> << >>,
     infos |-> << >>, d |-> 0]

\* lsf.setEnviron(lsfDir, confDir) is called and returns.
AppSetEnviron ==
    /\ pc = "idle"
    /\ Len(events) < MaxCalls
    /\ \E lsfDir \in LsfDirs, confDir \in ConfDirs :
          /\ call' = MkCall("app", "setEnviron", <<StrVal(lsfDir), StrVal(confDir)>>,
                            FALSE, DefaultDelay)
          /\ environ' = app_setEnviron(environ, lsfDir, confDir)
          /\ events' = Append(events, SetEnvironEvent(<<lsfDir, confDir>>))
    /\ UNCHANGED <<pc, attempt, result, err>>

\* LSF.setEnviron() is called and returns.
WebSetEnviron ==
    /\ pc = "idle"
    /\ Len(events) < MaxCalls
    /\ call' = MkCall("web", "setEnviron", << >>, FALSE, DefaultDelay)
    /\ environ' = web_setEnviron(environ)
    /\ events' = Append(events, SetEnvironEvent(<< >>))
    /\ UNCHANGED <<pc, attempt, result, err>>

NextEnv == AppSetEnviron \/ WebSetEnviron

SpecEnv == InitEnv /\ [][NextEnv]_vars

PathEntries(env) == IF env.PATH = [t |-> "none"] THEN << >> ELSE Split(env.PATH.v, ":")

\* A call of setEnviron that follows a call of the same function with the
\* same arguments leaves the environment as that call left it, does not
\* make PATH longer, and no call changes a variable that is not LSF's or
\* PATH.
CallIsIdempotent ==
    /\ environ'.HOME = environ.HOME
    /\ call' = call =>
          /\ environ' = environ
          /\ Len(PathEntries(environ')) = Len(PathEntries(environ))

\* C15: setEnviron, of lsf.py and of LSF.py, is idempotent: calls that
\* repeat the call before them do not change the environment and never
\* lengthen PATH, and variables other than LSF_BINDIR, LSF_ENVDIR,
\* LSF_LIBDIR, LSF_SERVERDIR, XLSF_UIDDIR and PATH are never changed.
C15_SetEnvironIdempotent == [][CallIsIdempotent]_vars

\* The same for setEnviron of lsf.py alone.
AppSetEnvironIdempotent == [][call'.mod = "app" => CallIsIdempotent]_vars

====
